---- MODULE Spec2Model ----
(***************************************************************************)
(* scripts/system_import_fix.py: a one-pass codemod that walks a project   *)
(* tree, rewrites `@/components/...` aliases and the relative imports of   *)
(* files under components/ui, and writes back the files whose text changed. *)
(*                                                                         *)
(* A text is a sequence of characters, each a one-character string; the    *)
(* one character outside ASCII the model carries is KelvinSign (U+212A),   *)
(* which str.lower() maps to the ASCII letter k.  A name on disk is such a  *)
(* text and a path is a sequence of names below the filesystem root.       *)
(***************************************************************************)
EXTENDS Integers, Sequences, FiniteSets, TLC

VARIABLES
    disk,       \* the files of the tree: absolute path -> text
    disk0,      \* the tree before the first run (history)
    order,      \* the order in which os.walk lists the files of the tree
    run,        \* 1: the first run_fixes, 2: the run_fixes executed after it
    pc,         \* where the current run_fixes stands
    targets,    \* run_fixes: targets
    ui_files,   \* run_fixes: ui_files
    idx,        \* index in targets of file_path, the file being handled
    orig,       \* run_fixes: orig
    content,    \* run_fixes: content
    log,        \* standard output: the paths of the "Fixed <path>" lines, in order
    opened,     \* paths opened with mode 'w' by the current run
    written,    \* paths whose write completed in the current run
    stopped,    \* how the first run ended: "no", "done", "read" or "write" (the failing call)
    reads,      \* the files the current run has read, in order, each with the text
                \* read and the text the rewriters made of it (history)
    input,      \* argument of the function under test (function-level specifications)
    output      \* the successive results of the function under test

vars == <<disk, disk0, order, run, pc, targets, ui_files, idx, orig, content,
          log, opened, written, stopped, reads, input, output>>

runVars == <<disk, disk0, order, run, targets, ui_files, idx, orig, content,
             log, opened, written, stopped, reads>>

---------------------------------------------------------------------------
(* Characters *)

UpperChars == <<"A","B","C","D","E","F","G","H","I","J","K","L","M",
                "N","O","P","Q","R","S","T","U","V","W","X","Y","Z">>
LowerChars == <<"a","b","c","d","e","f","g","h","i","j","k","l","m",
                "n","o","p","q","r","s","t","u","v","w","x","y","z">>
DigitChars == {"0","1","2","3","4","5","6","7","8","9"}
KelvinSign == "U+212A"

IsUpper(c) == \E i \in 1..26 : UpperChars[i] = c
IsLower(c) == \E i \in 1..26 : LowerChars[i] = c
IsDigit(c) == c \in DigitChars

\* str.lower() on one character
LowerChar(c) ==
    IF IsUpper(c) THEN LowerChars[CHOOSE i \in 1..26 : UpperChars[i] = c]
    ELSE IF c = KelvinSign THEN "k"
    ELSE c

StrLower(s) == [i \in 1..Len(s) |-> LowerChar(s[i])]

UpperSet == {UpperChars[i] : i \in 1..26}
LowerSet == {LowerChars[i] : i \in 1..26}

\* the last index of the run of characters in cls that starts at i (i - 1 when
\* s[i] is not in cls): a greedy [cls]* from i
RECURSIVE RunEnd(_, _, _)
RunEnd(s, i, cls) ==
    IF i <= Len(s) /\ s[i] \in cls THEN RunEnd(s, i + 1, cls) ELSE i - 1

\* the same for the characters outside cls: a greedy [^cls]* from i
RECURSIVE RunEndNot(_, _, _)
RunEndNot(s, i, cls) ==
    IF i <= Len(s) /\ s[i] \notin cls THEN RunEndNot(s, i + 1, cls) ELSE i - 1

\* needle in hay, for strings
Contains(hay, needle) ==
    \E i \in 1..(Len(hay) - Len(needle) + 1) :
        SubSeq(hay, i, i + Len(needle) - 1) = needle

StartsWithAt(s, i, p) ==
    i + Len(p) - 1 <= Len(s) /\ SubSeq(s, i, i + Len(p) - 1) = p

EndsWith(s, p) ==
    Len(p) <= Len(s) /\ SubSeq(s, Len(s) - Len(p) + 1, Len(s)) = p

\* str.split(sep) for a one-character separator
RECURSIVE SplitFrom(_, _, _, _)
SplitFrom(s, i, start, sep) ==
    IF i > Len(s) THEN << SubSeq(s, start, Len(s)) >>
    ELSE IF s[i] = sep
         THEN << SubSeq(s, start, i - 1) >> \o SplitFrom(s, i + 1, i + 1, sep)
         ELSE SplitFrom(s, i + 1, start, sep)

Split(s, sep) == SplitFrom(s, 1, 1, sep)

\* sep.join(parts)
RECURSIVE Join(_, _)
Join(parts, sep) ==
    IF Len(parts) = 0 THEN << >>
    ELSE IF Len(parts) = 1 THEN parts[1]
    ELSE parts[1] \o << sep >> \o Join(Tail(parts), sep)

---------------------------------------------------------------------------
(* to_kebab_case *)

\* re.sub('(.)([A-Z][a-z]+)', r'\1-\2', s), scanning from index i
RECURSIVE KebabPass1(_, _)
KebabPass1(s, i) ==
    IF i > Len(s) THEN << >>
    ELSE IF /\ i + 2 <= Len(s)
            /\ s[i] # "\n"
            /\ IsUpper(s[i + 1])
            /\ IsLower(s[i + 2])
         THEN LET e == RunEnd(s, i + 2, LowerSet)
              IN  << s[i], "-" >> \o SubSeq(s, i + 1, e) \o KebabPass1(s, e + 1)
         ELSE << s[i] >> \o KebabPass1(s, i + 1)

\* re.sub('([a-z0-9])([A-Z])', r'\1-\2', s), scanning from index i
RECURSIVE KebabPass2(_, _)
KebabPass2(s, i) ==
    IF i > Len(s) THEN << >>
    ELSE IF /\ i + 1 <= Len(s)
            /\ (IsLower(s[i]) \/ IsDigit(s[i]))
            /\ IsUpper(s[i + 1])
         THEN << s[i], "-", s[i + 1] >> \o KebabPass2(s, i + 2)
         ELSE << s[i] >> \o KebabPass2(s, i + 1)

\* to_kebab_case without the final .lower()
to_kebab_case_nolower(name) == KebabPass2(KebabPass1(name, 1), 1)

to_kebab_case(name) == StrLower(KebabPass2(KebabPass1(name, 1), 1))
---------------------------------------------------------------------------
(* Paths.  A path is the sequence of its names below "/". *)

PROJECT_ROOT == << <<"U", "s", "e", "r", "s">>, <<"K", "e", "l", "l", "e", "n">>, <<"D", "e", "s", "k", "t", "o", "p">>, <<"p", "e", "t", "a", "l">> >>
COMPONENTS_DIR == PROJECT_ROOT \o << <<"c", "o", "m", "p", "o", "n", "e", "n", "t", "s">> >>
UI_DIR == COMPONENTS_DIR \o << <<"u", "i">> >>

\* the path as the string the program holds: "/" + "/".join(names)
PathStr(p) == << "/" >> \o Join(p, "/")

IsPrefix(d, p) == Len(d) <= Len(p) /\ SubSeq(p, 1, Len(d)) = d

\* os.path.dirname(file_path)
DirName(p) == SubSeq(p, 1, Len(p) - 1)

BaseName(p) == p[Len(p)]

\* the directories of a tree whose files are fs
DirsOf(fs) == UNION {{SubSeq(f, 1, k) : k \in 0..(Len(f) - 1)} : f \in fs}

\* os.path.exists(p) on a tree whose files are fs
PathExists(fs, p) == p \in fs \/ p \in DirsOf(fs)

\* os.path.isfile(p)
IsFile(fs, p) == p \in fs

\* the number of leading names two paths share
RECURSIVE CommonLen(_, _)
CommonLen(a, b) ==
    IF Len(a) = 0 \/ Len(b) = 0 \/ a[1] # b[1] THEN 0
    ELSE 1 + CommonLen(Tail(a), Tail(b))

\* os.path.relpath(p, start), as the sequence of its names
RelPath(p, start) ==
    LET c == CommonLen(p, start)
        r == [i \in 1..(Len(start) - c) |-> <<".", ".">>] \o SubSeq(p, c + 1, Len(p))
    IN  IF Len(r) = 0 THEN << <<".">> >> ELSE r

---------------------------------------------------------------------------
(* The tree walker and the UI filename set *)

ExcludedMarkers == { <<"n", "o", "d", "e", "_", "m", "o", "d", "u", "l", "e", "s">>, <<".", "g", "i", "t">>, <<".", "e", "x", "p", "o">>, <<"s", "c", "r", "i", "p", "t", "s">>, <<".", "s", "y", "s", "t", "e", "m", "_", "g", "e", "n", "e", "r", "a", "t", "e", "d">> }

\* any(x in root for x in [...])
SkippedRoot(root) == \E x \in ExcludedMarkers : Contains(PathStr(root), x)

\* file.endswith(('.tsx', '.ts'))
IsSourceName(file) == EndsWith(file, <<".", "t", "s", "x">>) \/ EndsWith(file, <<".", "t", "s">>)

\* whether the walk appends os.path.join(root, file) to targets
Discovered(f) ==
    /\ IsPrefix(PROJECT_ROOT, DirName(f))
    /\ ~SkippedRoot(DirName(f))
    /\ IsSourceName(BaseName(f))

RECURSIVE FilterDiscovered(_)
FilterDiscovered(files) ==
    IF Len(files) = 0 THEN << >>
    ELSE IF Discovered(files[1])
         THEN << files[1] >> \o FilterDiscovered(Tail(files))
         ELSE FilterDiscovered(Tail(files))

\* f.split('.')[0]
Stem(f) == Split(f, ".")[1]

\* os.listdir(d)
ListDir(fs, d) ==
    {BaseName(g) : g \in {h \in fs \cup DirsOf(fs) : Len(h) > 0 /\ DirName(h) = d}}

\* lines 23-26
UiFilesOf(fs) ==
    IF PathExists(fs, UI_DIR)
    THEN {Stem(f) : f \in {n \in ListDir(fs, UI_DIR) : IsFile(fs, UI_DIR \o << n >>)}}
    ELSE {}

---------------------------------------------------------------------------
(* 1. Alias normalizations *)

AliasPrefix == <<"@", "/", "c", "o", "m", "p", "o", "n", "e", "n", "t", "s", "/">>
NameChars == UpperSet \cup LowerSet \cup DigitChars \cup {"_", "-", "/"}
FallbackNames == <<<<"t", "h", "e", "m", "e", "d", "-", "t", "e", "x", "t">>, <<"t", "h", "e", "m", "e", "d", "-", "v", "i", "e", "w">>, <<"h", "e", "r", "o">>>>

KebabAll(parts) == [i \in 1..Len(parts) |-> to_kebab_case(parts[i])]

\* fix_alias without the len(parts) == 1 tests
fix_alias_any_depth(prefix, name, uiFiles) ==
    LET parts == KebabAll(Split(name, "/"))
        comp_name == parts[Len(parts)]
    IN  IF comp_name \in uiFiles \/ \E k \in 1..3 : comp_name = FallbackNames[k]
        THEN prefix \o Join(<< <<"u", "i">> >> \o parts, "/")
        ELSE prefix \o Join(parts, "/")

\* fix_alias without the three elif branches
fix_alias_no_fallback(prefix, name, uiFiles) ==
    LET parts == KebabAll(Split(name, "/"))
        comp_name == parts[Len(parts)]
    IN  IF Len(parts) = 1 /\ comp_name \in uiFiles
        THEN prefix \o Join(<< <<"u", "i">> >> \o parts, "/")
        ELSE prefix \o Join(parts, "/")

fix_alias(prefix, name, uiFiles) ==
    LET parts == KebabAll(Split(name, "/"))
        comp_name == parts[Len(parts)]
    IN  IF Len(parts) = 1 /\ comp_name \in uiFiles
        THEN prefix \o Join(<< <<"u", "i">> >> \o parts, "/")
        ELSE IF Len(parts) = 1 /\ comp_name = FallbackNames[1]
        THEN prefix \o Join(<< <<"u", "i">> >> \o parts, "/")
        ELSE IF Len(parts) = 1 /\ comp_name = FallbackNames[2]
        THEN prefix \o Join(<< <<"u", "i">> >> \o parts, "/")
        ELSE IF Len(parts) = 1 /\ comp_name = FallbackNames[3]
        THEN prefix \o Join(<< <<"u", "i">> >> \o parts, "/")
        ELSE prefix \o Join(parts, "/")

\* re.sub(r'(@/components/)([a-zA-Z0-9_\-\/]+)', fix_alias, s), scanning from i
RECURSIVE AliasSubFrom(_, _, _)
AliasSubFrom(s, i, uiFiles) ==
    IF i > Len(s) THEN << >>
    ELSE LET n == i + Len(AliasPrefix)
         IN  IF StartsWithAt(s, i, AliasPrefix) /\ n <= Len(s) /\ s[n] \in NameChars
             THEN LET e == RunEnd(s, n, NameChars)
                  IN  fix_alias(AliasPrefix, SubSeq(s, n, e), uiFiles)
                        \o AliasSubFrom(s, e + 1, uiFiles)
             ELSE << s[i] >> \o AliasSubFrom(s, i + 1, uiFiles)

AliasRewrite(s, uiFiles) == AliasSubFrom(s, 1, uiFiles)

---------------------------------------------------------------------------
(* 2. Fix UI internal relative imports *)

FromWord == <<"f", "r", "o", "m">>
SpaceChars == {" ", "\t", "\n", "\r", "\f"}
QuoteChars == {"\"", "'"}
SourceExts == << <<".", "t", "s", "x">>, <<".", "t", "s">> >>

\* "/components/ui/" in file_path
InUiTree(file_path) == Contains(PathStr(file_path), <<"/", "c", "o", "m", "p", "o", "n", "e", "n", "t", "s", "/", "u", "i", "/">>)

\* the depth without the "- 1"
DepthOf_off_by_one(file_path) == Len(RelPath(file_path, UI_DIR))

\* len(rel_ui_path.split(os.sep)) - 1
DepthOf(file_path) == Len(RelPath(file_path, UI_DIR)) - 1

ReplaceFirst(parts, x) == [parts EXCEPT ![1] = x]

KebabLast(parts) == [parts EXCEPT ![Len(parts)] = to_kebab_case(parts[Len(parts)])]

\* any(os.path.exists(os.path.join(curr_dir, base + ext)) for ext in ['.tsx', '.ts'])
SiblingExists(fs, file_path, base) ==
    \E k \in 1..2 : PathExists(fs, DirName(file_path) \o << base \o SourceExts[k] >>)

fix_ui_rel(prefix, path, file_path, uiFiles, depth, fs) ==
    IF path[1] # "." THEN prefix \o path
    ELSE LET parts == KebabLast(Split(path, "/"))
             base == parts[Len(parts)]
         IN  IF /\ base \in uiFiles
                /\ depth > 0 /\ parts[1] = <<".">>
                /\ ~SiblingExists(fs, file_path, base)
             THEN prefix \o Join(ReplaceFirst(parts, <<".", ".">>), "/")
             ELSE prefix \o Join(parts, "/")

\* re.sub(r'(from\s+["\'])([\.][^"\']+)', fix_ui_rel, s), scanning from i
RECURSIVE RelSubFrom(_, _, _, _, _, _)
RelSubFrom(s, i, file_path, uiFiles, depth, fs) ==
    IF i > Len(s) THEN << >>
    ELSE LET w == RunEnd(s, i + Len(FromWord), SpaceChars)   \* end of \s+
             q == w + 1                                      \* the quote
         IN  IF /\ StartsWithAt(s, i, FromWord)
                /\ w >= i + Len(FromWord)
                /\ q + 2 <= Len(s)
                /\ s[q] \in QuoteChars
                /\ s[q + 1] = "."
                /\ s[q + 2] \notin QuoteChars
             THEN LET e == RunEndNot(s, q + 2, QuoteChars)
                  IN  fix_ui_rel(SubSeq(s, i, q), SubSeq(s, q + 1, e),
                                 file_path, uiFiles, depth, fs)
                        \o RelSubFrom(s, e + 1, file_path, uiFiles, depth, fs)
             ELSE << s[i] >> \o RelSubFrom(s, i + 1, file_path, uiFiles, depth, fs)

\* lines 65-94: the relative-import stage of one file
RelStage(s, file_path, uiFiles, fs) ==
    IF InUiTree(file_path)
    THEN RelSubFrom(s, 1, file_path, uiFiles, DepthOf(file_path), fs)
    ELSE s

\* lines 32-94: content after both rewriters, from the text read
RewriteFile(s, file_path, uiFiles, fs) ==
    RelStage(AliasRewrite(s, uiFiles), file_path, uiFiles, fs)
---------------------------------------------------------------------------
(* The trees and texts the runs start from *)

MaxFiles == 3        \* files in a tree of Spec
MaxWalkFiles == 3    \* files in a tree of SpecWalk

InRoot(rel) == PROJECT_ROOT \o rel

AppIndex    == InRoot(<< <<"a", "p", "p">>, <<"i", "n", "d", "e", "x", ".", "t", "s", "x">> >>)
UiLink      == InRoot(<< <<"c", "o", "m", "p", "o", "n", "e", "n", "t", "s">>, <<"u", "i">>, <<"l", "i", "n", "k", ".", "t", "s", "x">> >>)
HeroIndex   == InRoot(<< <<"c", "o", "m", "p", "o", "n", "e", "n", "t", "s">>, <<"u", "i">>, <<"h", "e", "r", "o">>, <<"i", "n", "d", "e", "x", ".", "t", "s", "x">> >>)
HeroLink    == InRoot(<< <<"c", "o", "m", "p", "o", "n", "e", "n", "t", "s">>, <<"u", "i">>, <<"h", "e", "r", "o">>, <<"l", "i", "n", "k", ".", "t", "s">> >>)
DeepIndex   == InRoot(<< <<"c", "o", "m", "p", "o", "n", "e", "n", "t", "s">>, <<"u", "i">>, <<"a">>, <<"b">>, <<"i", "n", "d", "e", "x", ".", "t", "s", "x">> >>)
NestedUi    == InRoot(<< <<"a", "p", "p">>, <<"c", "o", "m", "p", "o", "n", "e", "n", "t", "s">>, <<"u", "i">>, <<"x", ".", "t", "s", "x">> >>)
GithubCi    == InRoot(<< <<".", "g", "i", "t", "h", "u", "b">>, <<"c", "i", ".", "t", "s">> >>)
Transcript  == InRoot(<< <<"t", "r", "a", "n", "s", "c", "r", "i", "p", "t", "s">>, <<"t", ".", "t", "s", "x">> >>)
NodeModule  == InRoot(<< <<"n", "o", "d", "e", "_", "m", "o", "d", "u", "l", "e", "s">>, <<"p">>, <<"i", "n", "d", "e", "x", ".", "t", "s">> >>)
ScriptFile  == InRoot(<< <<"s", "c", "r", "i", "p", "t", "s">>, <<"f", "i", "x", ".", "t", "s">> >>)
Notes       == InRoot(<< <<"a", "p", "p">>, <<"n", "o", "t", "e", "s", ".", "m", "d">> >>)

RunFiles  == {AppIndex, UiLink, HeroIndex, HeroLink}
WalkFiles == {AppIndex, UiLink, HeroIndex, GithubCi, Transcript, NodeModule,
              ScriptFile, Notes}

PlainText  == <<"f", "r", "o", "m", " ", "\"", "r", "e", "a", "c", "t", "\"">>
AliasText  == <<"f", "r", "o", "m", " ", "\"", "@", "/", "c", "o", "m", "p", "o", "n", "e", "n", "t", "s", "/", "L", "i", "n", "k", "\"">>
RelText    == <<"f", "r", "o", "m", " ", "\"", ".", "/", "L", "i", "n", "k", "\"">>
KelvinText == <<"f", "r", "o", "m", " ", "\"", ".", "/", "@", "/", "c", "o", "m", "p", "o", "n", "e", "n", "t", "s", "/", "l", "i", "n", KelvinSign, "\"">>

RunTexts == {PlainText, AliasText, RelText, KelvinText}

\* the orders in which os.walk (top-down) can list the files fs: the files of a
\* directory come together, and before the files of the directories below it
RECURSIVE Perms(_)
Perms(S) ==
    IF S = {} THEN {<< >>}
    ELSE UNION {{<< x >> \o p : p \in Perms(S \ {x})} : x \in S}

TopDown(seq) ==
    \A i, j \in 1..Len(seq) :
        (DirName(seq[i]) # DirName(seq[j]) /\ IsPrefix(DirName(seq[i]), DirName(seq[j])))
            => i < j

Together(seq) ==
    \A i, j, k \in 1..Len(seq) :
        (i < j /\ j < k /\ DirName(seq[i]) = DirName(seq[k]))
            => DirName(seq[j]) = DirName(seq[i])

WalkOrders(fs) == {p \in Perms(fs) : TopDown(p) /\ Together(p)}

NoFunctionUnderTest == input = << >> /\ output = << >>

InitRun(files, texts, bound) ==
    /\ \E fs \in SUBSET files :
          /\ fs # {} /\ Cardinality(fs) <= bound
          /\ disk \in [fs -> texts]
          /\ order \in WalkOrders(fs)
    /\ disk0 = disk
    /\ run = 1
    /\ pc = "walk"
    /\ targets = << >>
    /\ ui_files = {}
    /\ idx = 0
    /\ orig = << >>
    /\ content = << >>
    /\ log = << >>
    /\ opened = {}
    /\ written = {}
    /\ stopped = "no"
    /\ reads = << >>
    /\ NoFunctionUnderTest

Init == InitRun(RunFiles, RunTexts, MaxFiles)

InitWalk == InitRun(WalkFiles, {PlainText}, MaxWalkFiles)

---------------------------------------------------------------------------
(* run_fixes *)

Files == DOMAIN disk

\* lines 14-20: the walk
Walk ==
    /\ pc = "walk"
    /\ targets' = FilterDiscovered(order)
    /\ pc' = "list_ui"
    /\ UNCHANGED <<disk, disk0, order, run, ui_files, idx, orig, content, log,
                   opened, written, stopped, reads, input, output>>

\* lines 23-26: the UI filename set
ListUi ==
    /\ pc = "list_ui"
    /\ ui_files' = UiFilesOf(Files)
    /\ idx' = 1
    /\ pc' = "loop"
    /\ UNCHANGED <<disk, disk0, order, run, targets, orig, content, log,
                   opened, written, stopped, reads, input, output>>

\* lines 28-94: the file is read and both rewriters run on its text
ReadFile ==
    /\ pc = "loop"
    /\ idx <= Len(targets)
    /\ orig' = disk[targets[idx]]
    /\ content' = RewriteFile(disk[targets[idx]], targets[idx], ui_files, Files)
    /\ reads' = Append(reads, [path |-> targets[idx], orig |-> orig', content |-> content'])
    /\ pc' = "compare"
    /\ UNCHANGED <<disk, disk0, order, run, targets, ui_files, idx, log,
                   opened, written, stopped, input, output>>

\* lines 29-30: open() or read() raises, and the exception ends the run
ReadFail ==
    /\ pc = "loop"
    /\ idx <= Len(targets)
    /\ run = 1
    /\ pc' = "aborted"
    /\ stopped' = "read"
    /\ UNCHANGED <<disk, disk0, order, run, targets, ui_files, idx, orig, content,
                   log, opened, written, reads, input, output>>

\* line 96: content == orig, nothing is done
Unchanged ==
    /\ pc = "compare"
    /\ content = orig
    /\ idx' = idx + 1
    /\ pc' = "loop"
    /\ UNCHANGED <<disk, disk0, order, run, targets, ui_files, orig, content, log,
                   opened, written, stopped, reads, input, output>>

\* the print and the write without the `if content != orig`
PrintFixed_always ==
    /\ pc = "compare"
    /\ log' = Append(log, targets[idx])
    /\ pc' = "write"
    /\ UNCHANGED <<disk, disk0, order, run, targets, ui_files, idx, orig, content,
                   opened, written, stopped, reads, input, output>>

\* lines 96-97: content != orig, the line is printed
PrintFixed ==
    /\ pc = "compare"
    /\ content # orig
    /\ log' = Append(log, targets[idx])
    /\ pc' = "write"
    /\ UNCHANGED <<disk, disk0, order, run, targets, ui_files, idx, orig, content,
                   opened, written, stopped, reads, input, output>>

\* lines 98-99: the file is opened for writing and the content written
WriteFile ==
    /\ pc = "write"
    /\ opened' = opened \cup {targets[idx]}
    /\ disk' = [disk EXCEPT ![targets[idx]] = content]
    /\ written' = written \cup {targets[idx]}
    /\ idx' = idx + 1
    /\ pc' = "loop"
    /\ UNCHANGED <<disk0, order, run, targets, ui_files, orig, content, log,
                   stopped, reads, input, output>>

\* the failed open() caught, and the loop going on with the next file
OpenFail_swallowed ==
    /\ pc = "write"
    /\ run = 1
    /\ idx' = idx + 1
    /\ pc' = "loop"
    /\ stopped' = "write"
    /\ UNCHANGED <<disk, disk0, order, run, targets, ui_files, orig, content,
                   log, opened, written, reads, input, output>>

\* line 98: open(file_path, 'w') raises (the file is left as it was)
OpenFail ==
    /\ pc = "write"
    /\ run = 1
    /\ pc' = "aborted"
    /\ stopped' = "write"
    /\ UNCHANGED <<disk, disk0, order, run, targets, ui_files, idx, orig, content,
                   log, opened, written, reads, input, output>>

\* line 99: write() raises after open(file_path, 'w') truncated the file; what
\* was written before the failure is some proper prefix of content
WriteFail ==
    /\ pc = "write"
    /\ run = 1
    /\ opened' = opened \cup {targets[idx]}
    /\ \E n \in {0, Len(content) - 1} :
          disk' = [disk EXCEPT ![targets[idx]] = SubSeq(content, 1, n)]
    /\ pc' = "aborted"
    /\ stopped' = "write"
    /\ UNCHANGED <<disk0, order, run, targets, ui_files, idx, orig, content,
                   log, written, reads, input, output>>

\* line 28: the loop is over
Finish ==
    /\ pc = "loop"
    /\ idx > Len(targets)
    /\ pc' = "done"
    /\ stopped' = IF run = 1 THEN "done" ELSE stopped
    /\ UNCHANGED <<disk, disk0, order, run, targets, ui_files, idx, orig, content,
                   log, opened, written, reads, input, output>>

\* lines 101-102: the script is executed again, on the tree the first run left;
\* this run meets no failure
Rerun ==
    /\ pc \in {"done", "aborted"}
    /\ run = 1
    /\ run' = 2
    /\ pc' = "walk"
    /\ targets' = << >>
    /\ ui_files' = {}
    /\ idx' = 0
    /\ orig' = << >>
    /\ content' = << >>
    /\ log' = << >>
    /\ opened' = {}
    /\ written' = {}
    /\ reads' = << >>
    /\ UNCHANGED <<disk, disk0, order, stopped, input, output>>

Next ==
    \/ Walk \/ ListUi \/ ReadFile \/ ReadFail \/ Unchanged \/ PrintFixed
    \/ WriteFile \/ OpenFail \/ WriteFail \/ Finish \/ Rerun

Spec == Init /\ [][Next]_vars

NextWalk == Walk \/ ListUi

SpecWalk == InitWalk /\ [][NextWalk]_vars
---------------------------------------------------------------------------
(* The functions on their own: the argument is drawn from a bounded set, the *)
(* function is applied to it, and (for the idempotence claims) applied again *)
(* to its own result.                                                        *)

MaxNameLen == 4      \* characters in an argument of to_kebab_case
MaxAliasPieces == 4  \* pieces in a text given to the alias rewriter
MaxRelPieces == 3    \* pieces in a text given to the relative-import rewriter
MaxRelFiles == 2     \* files in a tree of SpecRel

NoRun ==
    /\ disk = << >> /\ disk0 = << >> /\ order = << >> /\ run = 0
    /\ targets = << >> /\ ui_files = {} /\ idx = 0 /\ orig = << >> /\ content = << >>
    /\ log = << >> /\ opened = {} /\ written = {} /\ stopped = "no" /\ reads = << >>

RECURSIVE Concat(_)
Concat(ps) == IF Len(ps) = 0 THEN << >> ELSE ps[1] \o Concat(Tail(ps))

\* the texts made of at most n pieces
TextsOf(pieces, n) == {Concat(ps) : ps \in UNION {[1..k -> pieces] : k \in 0..n}}

KebabAlphabet == {"A", "B", "a", "b", "1", "-"}
KebabInputs == UNION {[1..n -> KebabAlphabet] : n \in 0..MaxNameLen}

AliasPieces == {AliasPrefix, <<"C", "a", "r", "d">>, <<"T", "h", "e", "m", "e", "d", "T", "e", "x", "t">>, <<"/">>, <<"u", "i">>, <<"\"">>}
AliasUiSets == {{}, {<<"c", "a", "r", "d">>, <<"u", "i">>}}

ImportHere == <<"f", "r", "o", "m", " ", "\"", ".", "/">>
ImportUp   == <<"f", "r", "o", "m", " ", "\"", ".", ".", "/">>
RelPieces  == {ImportHere, ImportUp, <<"C", "a", "r", "d">>, <<"s", "u", "b", "/">>, <<"\"">>}
UiCard     == InRoot(<< <<"c", "o", "m", "p", "o", "n", "e", "n", "t", "s">>, <<"u", "i">>, <<"c", "a", "r", "d", ".", "t", "s", "x">> >>)
CardWeb    == InRoot(<< <<"c", "o", "m", "p", "o", "n", "e", "n", "t", "s">>, <<"u", "i">>, <<"c", "a", "r", "d", ".", "w", "e", "b", ".", "t", "s", "x">> >>)
HeroCard   == InRoot(<< <<"c", "o", "m", "p", "o", "n", "e", "n", "t", "s">>, <<"u", "i">>, <<"h", "e", "r", "o">>, <<"c", "a", "r", "d", ".", "t", "s">> >>)
RelFiles   == {UiCard, CardWeb, HeroIndex, HeroCard, DeepIndex, NestedUi, AppIndex}

InitKebab ==
    /\ pc = "kebab"
    /\ input \in KebabInputs
    /\ output = << >>
    /\ NoRun

Kebab ==
    /\ pc = "kebab"
    /\ output' = << to_kebab_case(input) >>
    /\ pc' = "kebab_again"
    /\ UNCHANGED <<runVars, input>>

KebabAgain ==
    /\ pc = "kebab_again"
    /\ output' = Append(output, to_kebab_case(output[1]))
    /\ pc' = "end"
    /\ UNCHANGED <<runVars, input>>

NextKebab == Kebab \/ KebabAgain

SpecKebab == InitKebab /\ [][NextKebab]_vars

InitAlias ==
    /\ pc = "alias"
    /\ input \in [text : TextsOf(AliasPieces, MaxAliasPieces), ui : AliasUiSets]
    /\ output = << >>
    /\ NoRun

\* line 60 on the text
Alias ==
    /\ pc = "alias"
    /\ output' = << AliasRewrite(input.text, input.ui) >>
    /\ pc' = "alias_again"
    /\ UNCHANGED <<runVars, input>>

\* line 60 on the text line 60 produced
AliasAgain ==
    /\ pc = "alias_again"
    /\ output' = Append(output, AliasRewrite(output[1], input.ui))
    /\ pc' = "end"
    /\ UNCHANGED <<runVars, input>>

NextAlias == Alias \/ AliasAgain

SpecAlias == InitAlias /\ [][NextAlias]_vars

InitRel ==
    /\ pc = "rel"
    /\ \E fs \in SUBSET RelFiles :
          /\ fs # {} /\ Cardinality(fs) <= MaxRelFiles
          /\ input \in [text : TextsOf(RelPieces, MaxRelPieces), file_path : fs, fs : {fs}]
    /\ output = << >>
    /\ NoRun

\* lines 65-94 on the text of file_path
Rel ==
    /\ pc = "rel"
    /\ output' = << RelStage(input.text, input.file_path, UiFilesOf(input.fs), input.fs) >>
    /\ pc' = "end"
    /\ UNCHANGED <<runVars, input>>

NextRel == Rel

SpecRel == InitRel /\ [][NextRel]_vars
---------------------------------------------------------------------------
(* Claims *)

Processed == {i \in 1..Len(reads) : i < idx}

\* no `@/components/` alias and no import path that begins with "."
NoImportToFix(s) ==
    /\ ~Contains(s, AliasPrefix)
    /\ \A i \in 1..Len(s) : s[i] \in QuoteChars => (i = Len(s) \/ s[i + 1] # ".")

\* C1: a file the run has handled was opened for writing, and overwritten, if
\* and only if the text the rewriters produced differs from the text read from
\* it; it then holds exactly the rewritten text, and otherwise still the text
\* read.  A text with no alias and no relative import comes out unchanged.
C1_WriteBackIffChanged ==
    /\ \A i \in Processed :
          LET r == reads[i]
          IN  /\ (r.path \in written) <=> (r.content # r.orig)
              /\ (r.path \in opened) <=> (r.content # r.orig)
              /\ disk[r.path] = r.content
    /\ \A i \in 1..Len(reads) :
          /\ reads[i].content = reads[i].orig => reads[i].path \notin opened
          /\ NoImportToFix(reads[i].orig) => reads[i].content = reads[i].orig
    /\ written \subseteq opened

C1_Witness ==
    \E i, j \in Processed :
        /\ reads[i].path \in written
        /\ disk[reads[i].path] # disk0[reads[i].path]
        /\ NoImportToFix(reads[j].orig)
        /\ reads[j].path \notin opened

C2_End   == RunEnd(input.text, Len(AliasPrefix) + 1, NameChars)
C2_Name  == SubSeq(input.text, Len(AliasPrefix) + 1, C2_End)
C2_Rest  == SubSeq(input.text, C2_End + 1, Len(input.text))
C2_Segs  == KebabAll(Split(C2_Name, "/"))

\* the text is one `@/components/<path>` match and what follows it
C2_Case ==
    /\ pc # "alias"
    /\ StartsWithAt(input.text, 1, AliasPrefix)
    /\ Len(C2_Name) > 0
    /\ ~Contains(C2_Rest, AliasPrefix)

C2_SingleKnown ==
    /\ Len(C2_Segs) = 1
    /\ C2_Segs[1] \in input.ui \cup { <<"t", "h", "e", "m", "e", "d", "-", "t", "e", "x", "t">>, <<"t", "h", "e", "m", "e", "d", "-", "v", "i", "e", "w">>, <<"h", "e", "r", "o">> }

\* C2: the match `@/components/<path>` gets a `ui` segment in front of its
\* kebab-cased path if and only if the path is one segment whose kebab-cased
\* form is in the UI filename set or is themed-text, themed-view or hero; in
\* every other case the result is the path kebab-cased segment by segment.
C2_UiInsertedIffSingleKnown ==
    C2_Case =>
        output[1] = AliasPrefix
                      \o (IF C2_SingleKnown THEN <<"u", "i", "/">> ELSE << >>)
                      \o Join(C2_Segs, "/")
                      \o C2_Rest

C2_Witness ==
    /\ C2_Case
    /\ C2_SingleKnown
    /\ C2_Segs[1] \in input.ui
    /\ output[1] # input.text

\* C3: the alias substitution applied to its own result changes nothing.
C3_AliasIdempotent == pc = "end" => output[2] = output[1]

C3_Witness ==
    /\ pc = "end"
    /\ input.text = <<"@", "/", "c", "o", "m", "p", "o", "n", "e", "n", "t", "s", "/", "C", "a", "r", "d">>
    /\ output[1] = <<"@", "/", "c", "o", "m", "p", "o", "n", "e", "n", "t", "s", "/", "u", "i", "/", "c", "a", "r", "d">>
    /\ output[2] = output[1]

LowerOrKebab(s) == \A i \in 1..Len(s) : s[i] \in LowerSet \cup DigitChars \cup {"-"}

\* C4: to_kebab_case applied to its own result changes nothing, and a name that
\* is already lower-case or kebab-case is returned as it is.
C4_KebabIdempotent ==
    /\ pc = "end" => output[2] = output[1]
    /\ (pc # "kebab" /\ LowerOrKebab(input)) => output[1] = input

C4_Witness ==
    /\ pc = "end"
    /\ output[1] # input
    /\ Contains(output[1], << "-" >>) /\ ~Contains(input, << "-" >>)

C5_PathStart == Len(<<"f", "r", "o", "m", " ", "\"">>) + 1
C5_PathEnd(s) == RunEndNot(s, C5_PathStart, QuoteChars)
C5_Path(s)  == SubSeq(s, C5_PathStart, C5_PathEnd(s))
C5_Rest     == SubSeq(input.text, C5_PathEnd(input.text) + 1, Len(input.text))
C5_Parts    == Split(C5_Path(input.text), "/")
C5_Base     == to_kebab_case(C5_Parts[Len(C5_Parts)])
C5_Dir      == DirName(input.file_path)

\* the text is one relative import, `from "<path>` with what follows it
C5_OneImport ==
    /\ pc = "end"
    /\ StartsWithAt(input.text, 1, <<"f", "r", "o", "m", " ", "\"", ".">>)
    /\ Len(C5_Path(input.text)) >= 2
    /\ C5_Rest \in {<< >>, <<"\"">>}

\* the file is below the UI directory
C5_Case == C5_OneImport /\ IsPrefix(UI_DIR, C5_Dir)

C5_Corrects ==
    /\ C5_Base \in UiFilesOf(input.fs)
    /\ Len(input.file_path) - Len(UI_DIR) - 1 > 0
    /\ C5_Parts[1] = <<".">>
    /\ \A ext \in { <<".", "t", "s", "x">>, <<".", "t", "s">> } : ~PathExists(input.fs, C5_Dir \o << C5_Base \o ext >>)

\* C5: in a file below the UI directory, the leading `.` of a relative import
\* becomes `..` if and only if the kebab-cased basename is in the UI filename
\* set, the file is at least one folder below the UI root, the import starts
\* with the segment `.`, and the file's directory holds neither <basename>.tsx
\* nor <basename>.ts; otherwise the leading segments stay and only the last
\* segment is kebab-cased.
C5_DepthCorrectionIff ==
    C5_Case =>
        output[1] = <<"f", "r", "o", "m", " ", "\"">>
                      \o Join([ [C5_Parts EXCEPT ![Len(C5_Parts)] = C5_Base]
                                  EXCEPT ![1] = IF C5_Corrects THEN <<".", ".">> ELSE @ ], "/")
                      \o C5_Rest

C5_Witness ==
    /\ C5_Case
    /\ C5_Corrects
    /\ StartsWithAt(output[1], 1, <<"f", "r", "o", "m", " ", "\"", ".", ".", "/">>)

\* the path with its "." and ".." names resolved
RECURSIVE Normalize(_, _)
Normalize(done, todo) ==
    IF Len(todo) = 0 THEN done
    ELSE IF todo[1] \in { <<".">>, << >> } THEN Normalize(done, Tail(todo))
    ELSE IF todo[1] = <<".", ".">> THEN Normalize(SubSeq(done, 1, Len(done) - 1), Tail(todo))
    ELSE Normalize(Append(done, todo[1]), Tail(todo))

C10_Target == Normalize(C5_Dir, Split(C5_Path(output[1]), "/"))

\* C10: whenever the rewriter turns the leading `.` of an import into `..`, the
\* rewritten path, resolved from the importing file's directory, names a file
\* directly in the UI root: the one that put the basename in the UI filename set.
C10_CorrectedImportNamesUiRootFile ==
    (/\ C5_Case
     /\ C5_Parts[1] = <<".">>
     /\ StartsWithAt(output[1], 1, <<"f", "r", "o", "m", " ", "\"", ".", ".", "/">>))
        => /\ DirName(C10_Target) = UI_DIR
           /\ \E f \in input.fs : DirName(f) = UI_DIR /\ Stem(BaseName(f)) = BaseName(C10_Target)

BelowExcludedDirectory(f) ==
    \E k \in (Len(PROJECT_ROOT) + 1)..(Len(f) - 1) : f[k] \in ExcludedMarkers

\* C6: the discovered files are exactly the .ts and .tsx files under the project
\* root none of whose directory names equals an excluded marker.
C6_WalkerFindsExactlyUnexcludedSources ==
    pc # "walk" =>
        {targets[i] : i \in 1..Len(targets)}
            = {f \in Files : /\ IsPrefix(PROJECT_ROOT, f)
                             /\ (EndsWith(BaseName(f), <<".", "t", "s">>) \/ EndsWith(BaseName(f), <<".", "t", "s", "x">>))
                             /\ ~BelowExcludedDirectory(f)}

\* C7: files are handled one after another in the order of targets; when the
\* run aborts at the k-th file, the files before it hold what the rewriters made
\* of them, the files after it hold what they held at the start, and nothing is
\* read or written once the run has aborted.
C7_AbortLeavesPrefixDone ==
    /\ \A i \in 1..Len(reads) : reads[i].path = targets[i]
    /\ (run = 1 /\ stopped \in {"read", "write"}) =>
          /\ pc = "aborted"
          /\ Len(reads) = (IF stopped = "read" THEN idx - 1 ELSE idx)
          /\ \A i \in 1..(idx - 1) :
                /\ reads[i].orig = disk0[targets[i]]
                /\ disk[targets[i]] = reads[i].content
          /\ \A i \in (idx + 1)..Len(targets) : disk[targets[i]] = disk0[targets[i]]
          /\ opened \subseteq {targets[i] : i \in 1..idx}

C7_Witness ==
    /\ run = 1 /\ stopped = "write"
    /\ Len(targets) = 3 /\ idx = 2
    /\ targets[1] \in written
    /\ disk[targets[1]] # disk0[targets[1]]

\* C8: when a run has ended, a `Fixed <path>` line has been printed for a path
\* if and only if that file has been overwritten with its new text, and no path
\* has two lines.
C8_LogMatchesWrites ==
    pc \in {"done", "aborted"} =>
        /\ {log[i] : i \in 1..Len(log)} = written
        /\ \A i, j \in 1..Len(log) : log[i] = log[j] => i = j

\* what one uninterrupted run makes of the file f of the original tree
AfterOneRun(f) ==
    IF Discovered(f)
    THEN RewriteFile(disk0[f], f, UiFilesOf(DOMAIN disk0), DOMAIN disk0)
    ELSE disk0[f]

\* C9: a complete run executed after a run that ended between two files, or
\* after a complete run, leaves every file as one uninterrupted run on the
\* original tree leaves it; after a complete run it overwrites nothing.
C9_RerunEqualsOneRun ==
    (run = 2 /\ pc = "done" /\ stopped \in {"done", "read"}) =>
        /\ \A f \in Files : disk[f] = AfterOneRun(f)
        /\ stopped = "done" => opened = {}

====
